---- MODULE Spec2Model ----
(***************************************************************************)
(* Model of src/Hamming.py (class HammingCode) driven the way              *)
(* src/runner.py and the command line of src/Hamming.py drive it:          *)
(* construct an instance, encode data bits, flip bits with simulate_error, *)
(* decode; or construct and decode a word given on the command line.       *)
(***************************************************************************)
EXTENDS Integers, Sequences, FiniteSets

\* ------------------------------------------------------------------ bounds
\* r ranges over -MaxNeg .. MaxR when an instance is constructed.
MaxR == 4
MaxNeg == 1
\* lists of up to FullLen bits are enumerated in full; of a longer list only the
\* all-zero, the all-one and the single-one patterns are tried
FullLen == 16

VARIABLES
    pc,          \* position of the driver: start, constructed, encoded, decoded, raised
    ham,         \* <<>> before construction, <<instance>> after it
    data_bits,   \* the list handed to encode
    lists,       \* list objects in creation order: lists[1] is the codeword,
                 \* lists[i+1] the list returned by the i-th simulate_error
    flips,       \* positions passed to the successful simulate_error calls
    call,        \* the last call made: its name and its pos argument
    err,         \* the exception the last call raised, NoErr when none
    decoded      \* what decode returned (and the syndrome it computed)

vars == <<pc, ham, data_bits, lists, flips, call, err, decoded>>

\* ------------------------------------------------------- python numbers
\* 2**r is an int for r >= 0 and a float for r < 0; both are kept exactly
\* as num/den with den a power of two (den = 1 for an int).
Num(i) == [num |-> i, den |-> 1]

Pow2(r) == IF r >= 0 THEN Num(2^r) ELSE [num |-> 1, den |-> 2^(0 - r)]

NumSubInt(a, i) == [num |-> a.num - i * a.den, den |-> a.den]

\* i == a and i > a for an int i
IntEq(i, a) == i * a.den = a.num

IntGt(i, a) == i * a.den > a.num

RECURSIVE BitAnd(_, _)
BitAnd(a, b) ==
    IF a = 0 \/ b = 0 THEN 0
    ELSE (a % 2) * (b % 2) + 2 * BitAnd(a \div 2, b \div 2)

\* i & p, tabulated once for the operands range(1, n+1) and parity_positions hold
AndTable == [a \in 0..(2^MaxR) |-> [b \in 0..(2^MaxR) |-> BitAnd(a, b)]]

And(a, b) == AndTable[a][b]

RECURSIVE BitXor(_, _)
BitXor(a, b) ==
    IF a = 0 THEN b
    ELSE IF b = 0 THEN a
    ELSE ((a + b) % 2) + 2 * BitXor(a \div 2, b \div 2)

RECURSIVE SumSeq(_)
SumSeq(s) == IF s = <<>> THEN 0 ELSE Head(s) + SumSeq(Tail(s))

InSeq(x, s) == \E i \in 1..Len(s) : s[i] = x

\* ------------------------------------------------------------ exceptions
NoErr == [type |-> "None", text |-> "", args |-> <<>>]

Raise(type, text, args) == [type |-> type, text |-> text, args |-> args]

\* a constructor that rejects r < 1
HammingCode_Validating(r) ==
    IF r < 1
    THEN [err |-> Raise("ValueError", "r must be at least 1", <<Num(r)>>),
          obj |-> [r |-> r, n |-> Num(0), k |-> Num(0), parity_positions |-> <<>>]]
    ELSE [err |-> NoErr,
          obj |-> [r |-> r,
                   n |-> Num(2^r - 1),
                   k |-> Num(2^r - 1 - r),
                   parity_positions |-> [i \in 1..r |-> 2^(i - 1)]]]

\* -------------------------------------------------------------- __init__
HammingCode(r) ==
    LET n == NumSubInt(Pow2(r), 1)
    IN  [err |-> NoErr,
         obj |-> [r |-> r,
                  n |-> n,
                  k |-> NumSubInt(n, r),
                  parity_positions |->
                      [i \in 1..(IF r > 0 THEN r ELSE 0) |-> 2^(i - 1)]]]

\* ---------------------------------------------------------------- encode
\* for i in range(1, n+1): if i not in parity_positions: code[i] = data_bits[j]; j += 1
\* a data placement that never advances j
RECURSIVE PlaceData_StuckIndex(_, _, _, _, _)
PlaceData_StuckIndex(self, data_bits_, code, i, j) ==
    IF i > self.n.num THEN code
    ELSE IF ~InSeq(i, self.parity_positions)
         THEN PlaceData_StuckIndex(self, data_bits_, [code EXCEPT ![i] = data_bits_[j + 1]], i + 1, j)
         ELSE PlaceData_StuckIndex(self, data_bits_, code, i + 1, j)

RECURSIVE PlaceData(_, _, _, _, _)
PlaceData(self, data_bits_, code, i, j) ==
    IF i > self.n.num THEN code
    ELSE IF ~InSeq(i, self.parity_positions)
         THEN PlaceData(self, data_bits_, [code EXCEPT ![i] = data_bits_[j + 1]], i + 1, j + 1)
         ELSE PlaceData(self, data_bits_, code, i + 1, j)

\* bits = [code[i] for i in range(1, n+1) if i & p]   (code is 1-based)
RECURSIVE CoveredBits(_, _, _, _)
CoveredBits(code, n, p, i) ==
    IF i > n THEN <<>>
    ELSE IF And(i, p) # 0
         THEN <<code[i]>> \o CoveredBits(code, n, p, i + 1)
         ELSE CoveredBits(code, n, p, i + 1)

\* a parity loop that stops one parity position early
RECURSIVE ComputeParity_SkipLast(_, _, _)
ComputeParity_SkipLast(self, code, idx) ==
    IF idx >= Len(self.parity_positions) THEN code
    ELSE LET p == self.parity_positions[idx]
             bits == CoveredBits(code, self.n.num, p, 1)
         IN  ComputeParity_SkipLast(self, [code EXCEPT ![p] = SumSeq(bits) % 2], idx + 1)

\* a parity loop that stores odd parity
RECURSIVE ComputeParity_Odd(_, _, _)
ComputeParity_Odd(self, code, idx) ==
    IF idx > Len(self.parity_positions) THEN code
    ELSE LET p == self.parity_positions[idx]
             bits == CoveredBits(code, self.n.num, p, 1)
         IN  ComputeParity_Odd(self, [code EXCEPT ![p] = (SumSeq(bits) + 1) % 2], idx + 1)

\* for p in parity_positions: code[p] = sum(bits) % 2
RECURSIVE ComputeParity(_, _, _)
ComputeParity(self, code, idx) ==
    IF idx > Len(self.parity_positions) THEN code
    ELSE LET p == self.parity_positions[idx]
             bits == CoveredBits(code, self.n.num, p, 1)
         IN  ComputeParity(self, [code EXCEPT ![p] = SumSeq(bits) % 2], idx + 1)

\* a length check that only rejects short input
encode_OnlyShort(self, data_bits_) ==
    IF Len(data_bits_) * self.k.den < self.k.num
    THEN [err |-> Raise("ValueError", "Data length must be {self.k}", <<self.k>>),
          ret |-> <<>>]
    ELSE LET n == self.n.num
             code0 == [i \in 0..n |-> 0]
             code1 == PlaceData(self, data_bits_, code0, 1, 0)
         IN  CHOOSE res \in {[err |-> NoErr, ret |-> [i \in 1..n |-> code[i]]] :
                                code \in {ComputeParity(self, code1, 1)}} : TRUE

\* an error message that also reports the length it was given
encode_ReportsActual(self, data_bits_) ==
    IF ~IntEq(Len(data_bits_), self.k)
    THEN [err |-> Raise("ValueError", "Data length must be {self.k}, got {len(data_bits)}",
                        <<self.k, Num(Len(data_bits_))>>),
          ret |-> <<>>]
    ELSE LET n == self.n.num
             code0 == [i \in 0..n |-> 0]
             code1 == PlaceData(self, data_bits_, code0, 1, 0)
         IN  CHOOSE res \in {[err |-> NoErr, ret |-> [i \in 1..n |-> code[i]]] :
                                code \in {ComputeParity(self, code1, 1)}} : TRUE

encode(self, data_bits_) ==
    IF ~IntEq(Len(data_bits_), self.k)
    THEN [err |-> Raise("ValueError", "Data length must be {self.k}", <<self.k>>),
          ret |-> <<>>]
    ELSE LET n == self.n.num
             code0 == [i \in 0..n |-> 0]
             code1 == PlaceData(self, data_bits_, code0, 1, 0)
         IN  \* return code[1:]
             CHOOSE res \in {[err |-> NoErr, ret |-> [i \in 1..n |-> code[i]]] :
                                code \in {ComputeParity(self, code1, 1)}} : TRUE

\* ---------------------------------------------------------------- decode
\* a syndrome loop with the parity test inverted
RECURSIVE Syndrome_Inverted(_, _, _, _)
Syndrome_Inverted(self, codeword, idx, syndrome) ==
    IF idx > Len(self.parity_positions) THEN syndrome
    ELSE LET p == self.parity_positions[idx]
             bits == CoveredBits(codeword, self.n.num, p, 1)
         IN  Syndrome_Inverted(self, codeword, idx + 1,
                               IF SumSeq(bits) % 2 = 0 THEN syndrome + p ELSE syndrome)

\* syndrome = 0; for p in parity_positions: if sum(bits) % 2: syndrome += p
RECURSIVE Syndrome(_, _, _, _)
Syndrome(self, codeword, idx, syndrome) ==
    IF idx > Len(self.parity_positions) THEN syndrome
    ELSE LET p == self.parity_positions[idx]
             bits == CoveredBits(codeword, self.n.num, p, 1)
         IN  Syndrome(self, codeword, idx + 1,
                      IF SumSeq(bits) % 2 # 0 THEN syndrome + p ELSE syndrome)

\* data = [code[i-1] for i in range(1, n+1) if i not in parity_positions]
RECURSIVE ExtractData(_, _, _)
ExtractData(self, code, i) ==
    IF i > self.n.num THEN <<>>
    ELSE IF ~InSeq(i, self.parity_positions)
         THEN <<code[i]>> \o ExtractData(self, code, i + 1)
         ELSE ExtractData(self, code, i + 1)

\* a correction that flips code[syndrome] instead of code[syndrome-1]
Correct_NoMinusOne(self, codeword, syndrome) ==
    IF syndrome = 0
    THEN [err |-> NoErr, data |-> ExtractData(self, codeword, 1),
          corrected |-> FALSE, syndrome |-> syndrome]
    ELSE IF syndrome + 1 > Len(codeword)
    THEN [err |-> Raise("IndexError", "list index out of range", <<>>),
          data |-> <<>>, corrected |-> FALSE, syndrome |-> syndrome]
    ELSE [err |-> NoErr,
          data |-> ExtractData(self, [codeword EXCEPT ![syndrome + 1] = BitXor(@, 1)], 1),
          corrected |-> TRUE, syndrome |-> syndrome]

\* a correction that extracts the data from the received word, not the corrected copy
Correct_FromReceived(self, codeword, syndrome) ==
    IF syndrome = 0
    THEN [err |-> NoErr, data |-> ExtractData(self, codeword, 1),
          corrected |-> FALSE, syndrome |-> syndrome]
    ELSE IF syndrome > Len(codeword)
    THEN [err |-> Raise("IndexError", "list index out of range", <<>>),
          data |-> <<>>, corrected |-> FALSE, syndrome |-> syndrome]
    ELSE [err |-> NoErr, data |-> ExtractData(self, codeword, 1),
          corrected |-> TRUE, syndrome |-> syndrome]

\* code = codeword.copy(); if syndrome != 0: code[syndrome-1] ^= 1; extract data
Correct(self, codeword, syndrome) ==
    IF syndrome = 0
    THEN [err |-> NoErr, data |-> ExtractData(self, codeword, 1),
          corrected |-> FALSE, syndrome |-> syndrome]
    ELSE IF syndrome > Len(codeword)
    THEN \* code[syndrome-1] past the end of the list raises
         [err |-> Raise("IndexError", "list index out of range", <<>>),
          data |-> <<>>, corrected |-> FALSE, syndrome |-> syndrome]
    ELSE [err |-> NoErr,
          data |-> ExtractData(self, [codeword EXCEPT ![syndrome] = BitXor(@, 1)], 1),
          corrected |-> TRUE, syndrome |-> syndrome]

decode(self, codeword) ==
    IF ~IntEq(Len(codeword), self.n)
    THEN [err |-> Raise("ValueError", "Codeword length must be {self.n}", <<self.n>>),
          data |-> <<>>, corrected |-> FALSE, syndrome |-> 0]
    ELSE CHOOSE res \in {Correct(self, codeword, syndrome) :
                             syndrome \in {Syndrome(self, codeword, 1, 0)}} : TRUE

\* -------------------------------------------------------- simulate_error
\* a simulate_error that flips the bit in the caller's list (no copy)
simulate_error_InPlace(self, codeword, pos) ==
    IF pos < 1 \/ IntGt(pos, self.n)
    THEN [err |-> Raise("IndexError", "Position out of range", <<>>),
          arg |-> codeword, ret |-> <<>>]
    ELSE [err |-> NoErr,
          arg |-> [codeword EXCEPT ![pos] = BitXor(@, 1)],
          ret |-> [codeword EXCEPT ![pos] = BitXor(@, 1)]]

\* arg is the caller's list as the call leaves it, ret the list returned
simulate_error(self, codeword, pos) ==
    IF pos < 1 \/ IntGt(pos, self.n)
    THEN [err |-> Raise("IndexError", "Position out of range", <<>>),
          arg |-> codeword, ret |-> <<>>]
    ELSE LET cw == codeword
         IN  [err |-> NoErr, arg |-> codeword,
              ret |-> [cw EXCEPT ![pos] = BitXor(@, 1)]]

\* ---------------------------------------------------------------- inputs
Bit == {0, 1}

BitSeqs(len) ==
    IF len <= FullLen
    THEN [1..len -> Bit]
    ELSE {[i \in 1..len |-> 0], [i \in 1..len |-> 1]}
             \cup {[i \in 1..len |-> IF i = j THEN 1 ELSE 0] : j \in 1..len}

RValues == (0 - MaxNeg)..MaxR

\* lengths tried for a list handed to an instance expecting `want` elements
Lengths(want) ==
    IF want.den = 1 /\ want.num >= 0
    THEN {l \in (want.num - 1)..(want.num + 1) : l >= 0}
    ELSE {0, 1}

Self == ham[1]

NoCall == [op |-> "none", pos |-> 0]

NoDecode == [data |-> <<>>, corrected |-> FALSE, syndrome |-> 0]

\* ------------------------------------------------------------------ init
Init ==
    /\ pc = "start"
    /\ ham = <<>>
    /\ data_bits = <<>>
    /\ lists = <<>>
    /\ flips = <<>>
    /\ call = NoCall
    /\ err = NoErr
    /\ decoded = NoDecode

\* --------------------------------------------------------------- actions
\* hc = HammingCode(r)
New(r) ==
    /\ pc = "start"
    /\ \E res \in {HammingCode(r)} :
           /\ call' = [op |-> "new", pos |-> r]
           /\ err' = res.err
           /\ IF res.err = NoErr
              THEN ham' = <<res.obj>> /\ pc' = "constructed"
              ELSE ham' = ham /\ pc' = "raised"
    /\ UNCHANGED <<data_bits, lists, flips, decoded>>

\* codeword = hc.encode(data_bits)
Encode(d) ==
    /\ pc = "constructed"
    /\ \E res \in {encode(Self, d)} :
           /\ data_bits' = d
           /\ call' = [op |-> "encode", pos |-> 0]
           /\ err' = res.err
           /\ IF res.err = NoErr
              THEN lists' = <<res.ret>> /\ pc' = "encoded"
              ELSE lists' = lists /\ pc' = "raised"
    /\ UNCHANGED <<ham, flips, decoded>>

\* hc.simulate_error(lists[last], pos): the call, its result stored by the caller
Flip(pos) ==
    /\ pc = "encoded"
    /\ \E res \in {simulate_error(Self, lists[Len(lists)], pos)} :
          /\ call' = [op |-> "simulate_error", pos |-> pos]
          /\ err' = res.err
          /\ IF res.err = NoErr
             THEN /\ lists' = Append([lists EXCEPT ![Len(lists)] = res.arg], res.ret)
                  /\ flips' = Append(flips, pos)
                  /\ pc' = "encoded"
             ELSE /\ lists' = [lists EXCEPT ![Len(lists)] = res.arg]
                  /\ flips' = flips
                  /\ pc' = "raised"
    /\ UNCHANGED <<ham, data_bits, decoded>>

\* corrupted_codeword = hc.simulate_error(codeword, pos)
SimulateError(pos) ==
    /\ flips = <<>>
    /\ Flip(pos)

\* a second error: hc.simulate_error(corrupted_codeword, pos)
SimulateErrorAgain(pos) ==
    /\ Len(flips) = 1
    /\ Flip(pos)

\* decoded_data, correction_applied = hc.decode(corrupted_codeword)
Decode ==
    /\ pc = "encoded"
    /\ \E res \in {decode(Self, lists[Len(lists)])} :
           /\ call' = [op |-> "decode", pos |-> 0]
           /\ err' = res.err
           /\ IF res.err = NoErr
              THEN /\ decoded' = [data |-> res.data, corrected |-> res.corrected,
                                  syndrome |-> res.syndrome]
                   /\ pc' = "decoded"
              ELSE /\ decoded' = [NoDecode EXCEPT !.syndrome = res.syndrome]
                   /\ pc' = "raised"
    /\ UNCHANGED <<ham, data_bits, lists, flips>>

\* command line: cw = list(map(int, args.decode.split(','))); ham.decode(cw)
CliDecode(cw) ==
    /\ pc = "constructed"
    /\ \E res \in {decode(Self, cw)} :
           /\ lists' = <<cw>>
           /\ call' = [op |-> "cli_decode", pos |-> 0]
           /\ err' = res.err
           /\ IF res.err = NoErr
              THEN /\ decoded' = [data |-> res.data, corrected |-> res.corrected,
                                  syndrome |-> res.syndrome]
                   /\ pc' = "decoded"
              ELSE /\ decoded' = [NoDecode EXCEPT !.syndrome = res.syndrome]
                   /\ pc' = "raised"
    /\ UNCHANGED <<ham, data_bits, flips>>

Positions == 0..(Len(lists[Len(lists)]) + 1)

Next ==
    \/ \E r \in RValues : New(r)
    \/ pc = "constructed" /\ \E l \in Lengths(Self.k) : \E d \in BitSeqs(l) : Encode(d)
    \/ pc = "encoded" /\ \E pos \in Positions : SimulateError(pos)
    \/ Decode
    \/ pc = "constructed" /\ \E l \in Lengths(Self.n) : \E cw \in BitSeqs(l) : CliDecode(cw)

Spec == Init /\ [][Next]_vars

\* the runner with up to two errors put into one codeword
NextTwo ==
    \/ \E r \in RValues : New(r)
    \/ pc = "constructed" /\ \E l \in Lengths(Self.k) : \E d \in BitSeqs(l) : Encode(d)
    \/ pc = "encoded" /\ \E pos \in Positions : SimulateError(pos)
    \/ pc = "encoded" /\ \E pos \in Positions : SimulateErrorAgain(pos)
    \/ Decode

SpecTwo == Init /\ [][NextTwo]_vars


\* ================================================================ claims
\* the runner has just called decode on the word it holds
RunnerDecode == call.op = "decode"

\* C1: decoding a codeword with exactly one bit flipped by simulate_error, at any
\* position 1..n, returns the data that was encoded, with corrected = TRUE.
C1_SingleErrorCorrected ==
    (RunnerDecode /\ Len(flips) = 1) =>
        /\ pc = "decoded"
        /\ decoded.data = data_bits
        /\ decoded.corrected = TRUE

C1_Witness ==
    /\ RunnerDecode /\ pc = "decoded"
    /\ Self.r = MaxR
    /\ flips = <<Self.n.num>>
    /\ \E i \in 1..Len(data_bits) : data_bits[i] = 1

\* C2: decoding what encode returned, untouched, returns the data that was
\* encoded with corrected = FALSE; the syndrome of every codeword is 0.
C2_RoundTrip ==
    (RunnerDecode /\ flips = <<>>) =>
        /\ pc = "decoded"
        /\ decoded.data = data_bits
        /\ decoded.corrected = FALSE
        /\ decoded.syndrome = 0

C2_Witness ==
    /\ RunnerDecode /\ pc = "decoded" /\ flips = <<>>
    /\ Self.r = MaxR
    /\ \E i, j \in 1..Len(data_bits) : data_bits[i] = 1 /\ data_bits[j] = 0

\* the list handed to the last decode call
DecodeInput == lists[Len(lists)]

\* C9: for every n-bit word handed to decode the syndrome lies in 0..n and the
\* correction step raises no index error; for a codeword with exactly one bit
\* flipped at position p the syndrome is p.
C9_SyndromeInRange ==
    /\ (call.op \in {"decode", "cli_decode"} /\ IntEq(Len(DecodeInput), Self.n)) =>
           /\ decoded.syndrome \in 0..Self.n.num
           /\ err = NoErr
           /\ pc = "decoded"
    /\ (RunnerDecode /\ Len(flips) = 1) => decoded.syndrome = flips[1]

C9_Witness ==
    /\ call.op = "cli_decode" /\ pc = "decoded"
    /\ Self.r = MaxR
    /\ decoded.syndrome = Self.n.num
    /\ decoded.corrected

\* C10: decoding a codeword with two bits flipped at distinct positions returns
\* corrected = TRUE together with data that differs from the data encoded.
C10_DoubleErrorMiscorrected ==
    (RunnerDecode /\ Len(flips) = 2 /\ flips[1] # flips[2]) =>
        /\ pc = "decoded"
        /\ decoded.corrected = TRUE
        /\ decoded.data # data_bits

C10_Witness ==
    /\ RunnerDecode /\ pc = "decoded"
    /\ Self.r = MaxR
    /\ flips = <<1, 2>>

\* C3 as stated: with r = 3, encode([1,0,1,1]) equals [1,1,0,0,1,0,1].
C3_Original ==
    (call.op = "encode" /\ Self.r = 3 /\ data_bits = <<1, 0, 1, 1>>) =>
        lists = << <<1, 1, 0, 0, 1, 0, 1>> >>

\* C3, amended: with r = 3 (n = 7, k = 4, parity positions 1, 2, 4),
\* encode([1,0,1,1]) returns [0,1,1,0,0,1,1].
C3_EncodeExample ==
    (call.op = "encode" /\ Self.r = 3 /\ data_bits = <<1, 0, 1, 1>>) =>
        /\ Self.n = Num(7)
        /\ Self.k = Num(4)
        /\ Self.parity_positions = <<1, 2, 4>>
        /\ pc = "encoded"
        /\ lists = << <<0, 1, 1, 0, 0, 1, 1>> >>

C3_Witness ==
    /\ call.op = "encode" /\ pc = "encoded"
    /\ Self.r = 3
    /\ data_bits = <<1, 0, 1, 1>>

\* C4 as stated: constructing with r < 1 fails and yields no instance; only
\* r >= 1 produces an instance, with n = 2^r - 1, k = n - r and parity positions
\* 2^0 .. 2^(r-1).
C4_Original ==
    /\ (call.op = "new" /\ call.pos < 1) => (pc = "raised" /\ err # NoErr /\ ham = <<>>)
    /\ ham # <<>> =>
           /\ Self.r >= 1
           /\ Self.n = Num(2^Self.r - 1)
           /\ Self.k = Num(2^Self.r - 1 - Self.r)
           /\ Self.parity_positions = [i \in 1..Self.r |-> 2^(i - 1)]

\* C4, amended: constructing never fails. Every integer r yields an instance with
\* n = 2^r - 1 and k = n - r: for r >= 1 the parity positions are 2^0 .. 2^(r-1);
\* r = 0 gives n = 0, k = 0 and no parity position; r < 0 gives a non-integer
\* n < 0 and no parity position.
C4_ConstructionNeverFails ==
    /\ call.op = "new" => (pc = "constructed" /\ err = NoErr /\ ham # <<>> /\ Self.r = call.pos)
    /\ (ham # <<>> /\ Self.r >= 0) =>
           /\ Self.n = Num(2^Self.r - 1)
           /\ Self.k = Num(2^Self.r - 1 - Self.r)
           /\ Len(Self.parity_positions) = Self.r
           /\ \A i \in 1..Self.r : Self.parity_positions[i] = 2^(i - 1)
    /\ (ham # <<>> /\ Self.r < 0) =>
           /\ Self.n.den = 2^(0 - Self.r)
           /\ Self.n.num = 1 - Self.n.den
           /\ Self.k.den = Self.n.den
           /\ Self.k.num = Self.n.num - Self.r * Self.n.den
           /\ Self.parity_positions = <<>>

C4_Witness ==
    /\ call.op = "new" /\ pc = "constructed"
    /\ Self.r = 0
    /\ Self.n = Num(0)

\* C5: a violated precondition yields an error and no result: encode raises for
\* every input whose length is not k, decode for every input whose length is
\* not n, simulate_error for every pos outside 1..n.
C5_PreconditionErrors ==
    /\ (call.op = "encode" /\ ~IntEq(Len(data_bits), Self.k)) =>
           (pc = "raised" /\ err.type = "ValueError" /\ lists = <<>>)
    /\ (call.op \in {"decode", "cli_decode"} /\ ~IntEq(Len(DecodeInput), Self.n)) =>
           (pc = "raised" /\ err.type = "ValueError" /\ decoded = NoDecode)
    /\ (call.op = "simulate_error" /\ (call.pos < 1 \/ IntGt(call.pos, Self.n))) =>
           (pc = "raised" /\ err.type = "IndexError" /\ Len(lists) = Len(flips) + 1)

C5_Witness ==
    /\ call.op = "simulate_error" /\ pc = "raised"
    /\ Self.r = 3
    /\ call.pos = Self.n.num + 1
    /\ lists = << <<0, 1, 1, 0, 0, 1, 1>> >>

\* what the failing call expected, and what it was given
Expected == IF call.op = "encode" THEN Self.k ELSE Self.n

Actual ==
    IF call.op = "encode" THEN Num(Len(data_bits))
    ELSE IF call.op = "simulate_error" THEN Num(call.pos)
    ELSE Num(Len(DecodeInput))

\* C6 as stated: every error raised by encode, decode or simulate_error carries
\* both the expected value and the actual offending value.
C6_Original ==
    err # NoErr =>
        /\ \E i \in 1..Len(err.args) : err.args[i] = Expected
        /\ \E i \in 1..Len(err.args) : err.args[i] = Actual

\* C6, amended: the length error of encode carries the expected length k and
\* that of decode the expected length n, neither carries the actual length; the
\* position error of simulate_error carries neither the valid range nor pos.
C6_ErrorsCarryExpectedOnly ==
    err # NoErr =>
        /\ call.op \in {"encode", "decode", "cli_decode", "simulate_error"}
        /\ call.op = "encode" => (err.type = "ValueError" /\ err.args = <<Self.k>>)
        /\ call.op \in {"decode", "cli_decode"} =>
               (err.type = "ValueError" /\ err.args = <<Self.n>>)
        /\ call.op = "simulate_error" => (err.type = "IndexError" /\ err.args = <<>>)
        /\ \A i \in 1..Len(err.args) : err.args[i] # Actual

C6_Witness ==
    /\ call.op = "encode" /\ pc = "raised"
    /\ Self.r = 3
    /\ Len(data_bits) = 5
    /\ err.args = <<Num(4)>>

\* x with the bit at 1-based position pos inverted
Inverted(x, pos) == [i \in 1..Len(x) |-> IF i = pos THEN 1 - x[i] ELSE x[i]]

\* C7: simulate_error(x, pos) with 1 <= pos <= n returns a new list equal to x
\* except for the inverted bit at pos and leaves x (and every other list) as it
\* was; applied twice at the same position it gives back the original.
C7_FlipFrame ==
    [][(call'.op = "simulate_error" /\ call'.pos >= 1 /\ call'.pos <= Self.n.num) =>
           /\ err' = NoErr
           /\ lists' = Append(lists, Inverted(lists[Len(lists)], call'.pos))
           /\ (Len(lists') = 3 /\ flips' = <<call'.pos, call'.pos>>) => lists'[3] = lists'[1]]_vars

C7_Witness ==
    /\ call.op = "simulate_error" /\ pc = "encoded"
    /\ Self.r = MaxR
    /\ flips = <<5, 5>>
    /\ lists[3] = lists[1]
    /\ lists[2] # lists[1]

IsPowerOfTwo(i) == \E e \in 0..MaxR : 2^e = i

\* how many parity positions lie in 1..i
ParityUpTo(i) == Cardinality({q \in 1..i : IsPowerOfTwo(q)})

\* position i has the bit of the power of two p set
Covers(p, i) == (i \div p) % 2 = 1

Xor(cw, S) == Cardinality({i \in S : cw[i] = 1}) % 2

\* C8: for k data bits encode returns n bits; the bits at the positions that are
\* not powers of two, in increasing order, are the data bits in the order given;
\* each bit at a parity position p is the XOR of the bits at the other positions
\* i with i & p # 0, so the XOR over all of p's positions is 0.
C8_EncodeLayout ==
    /\ (call.op = "encode" /\ IntEq(Len(data_bits), Self.k)) => pc = "encoded"
    /\ (call.op = "encode" /\ pc = "encoded") =>
           LET cw == lists[1]
               n == 2^Self.r - 1
           IN  /\ Len(cw) = n
               /\ Len(data_bits) = n - Self.r
               /\ \A i \in 1..n : cw[i] \in Bit
               /\ \A i \in 1..n :
                      ~IsPowerOfTwo(i) => cw[i] = data_bits[i - ParityUpTo(i)]
               /\ \A p \in 1..n :
                      IsPowerOfTwo(p) =>
                          /\ cw[p] = Xor(cw, {i \in 1..n : i # p /\ Covers(p, i)})
                          /\ Xor(cw, {i \in 1..n : Covers(p, i)}) = 0

C8_Witness ==
    /\ call.op = "encode" /\ pc = "encoded"
    /\ Self.r = MaxR
    /\ data_bits = <<1, 0, 1, 1, 0, 0, 1, 0, 1, 1, 1>>

====
